---- MODULE Spec2Model ----
(***************************************************************************)
(* Model of the foldeb error-branch folding engine.                        *)
(*                                                                         *)
(*   src/src/extension.ts   the current revision: analyzeCodeBlocks (the   *)
(*                          indentation segmenter), isErrorHandlingBlock   *)
(*                          (depth gate with label exception, preceding    *)
(*                          guard, keyword and log content scan) and       *)
(*                          findErrorBranches;                             *)
(*   src/unnamed/part_000   an earlier revision of the same file: the same *)
(*                          segmenter, a classifier with a depth gate that *)
(*                          has no label exception, a `startLine > 0`      *)
(*                          check and no log table.                        *)
(*                                                                         *)
(* A string is the sequence of its UTF-16 code units, each a number from   *)
(* 0 to 65535, so that the length of the sequence is the .length of the    *)
(* string and every character of a document is a value of the model.       *)
(* Line indices are zero-based as in the source; the sequence `lines` is   *)
(* one-based, so line i of the source is lines[i + 1].                     *)
(***************************************************************************)
EXTENDS Integers, Sequences, FiniteSets, TLC

VARIABLES rev, lines, pc, i, currentIndentLevel, bracketStack, blocks,
          k, foldingRanges, verdicts

vars == <<rev, lines, pc, i, currentIndentLevel, bracketStack, blocks,
          k, foldingRanges, verdicts>>

(***************************************************************************)
(* Bounds of the model.                                                    *)
(***************************************************************************)
\* longest input of the indentation family
MaxLines == 5
\* most body lines of an input of the classification family
MaxBody == 2

(***************************************************************************)
(* Strings.                                                                *)
(***************************************************************************)
\* the printable characters of ASCII in the order of their codes, U+0020 to
\* U+007E, but for U+0060, the grave accent, which no line of the model holds
Printable == " !\"#$%&'()*+,-./0123456789:;<=>?@ABCDEFGHIJKLMNOPQRSTUVWXYZ[\\]^_abcdefghijklmnopqrstuvwxyz{|}~"

\* the code unit of a character of a string literal: a tab, a line feed, a
\* form feed, a carriage return, or a printable character of ASCII, of which
\* those up to U+005F are the first 64 of Printable
CodeOf(c) ==
    CASE c = "\t" -> 9
      [] c = "\n" -> 10
      [] c = "\f" -> 12
      [] c = "\r" -> 13
      [] OTHER ->
           LET n == CHOOSE m \in 1..Len(Printable) : SubSeq(Printable, m, m) = c
           IN  IF n <= 64 THEN 31 + n ELSE 32 + n

RECURSIVE StrFrom(_, _)
StrFrom(text, p) ==
    IF p > Len(text) THEN <<>>
    ELSE <<CodeOf(SubSeq(text, p, p))>> \o StrFrom(text, p + 1)

\* the string a literal of printable ASCII characters denotes
Str(text) == StrFrom(text, 1)

\* the code unit at position p (from 1) of the string
CharAt(s, p) == s[p]

\* what String.prototype.trim strips and what \s matches, the WhiteSpace and
\* LineTerminator code points of ECMAScript: U+0009 tab, U+000A line feed,
\* U+000B vertical tab, U+000C form feed, U+000D carriage return, U+0020
\* space, U+00A0 no-break space, U+1680 ogham space mark, U+2000 to U+200A,
\* U+2028 line separator, U+2029 paragraph separator, U+202F narrow no-break
\* space, U+205F medium mathematical space, U+3000 ideographic space and
\* U+FEFF byte order mark
WhiteSpace ==
    {9, 10, 11, 12, 13, 32, 160, 5760} \cup (8192..8202)
        \cup {8232, 8233, 8239, 8287, 12288, 65279}

\* the line terminators, which . does not match: U+000A, U+000D, U+2028 and
\* U+2029
LineTerminators == {10, 13, 8232, 8233}

RECURSIVE LeadingWhite(_, _)
\* number of whitespace characters of s from position p on, up to the first
\* character that is not whitespace
LeadingWhite(s, p) ==
    IF p <= Len(s) /\ CharAt(s, p) \in WhiteSpace
    THEN 1 + LeadingWhite(s, p + 1)
    ELSE 0

RECURSIVE TrailingWhite(_, _)
TrailingWhite(s, p) ==
    IF p >= 1 /\ CharAt(s, p) \in WhiteSpace
    THEN 1 + TrailingWhite(s, p - 1)
    ELSE 0

\* String.prototype.trim
Trim(s) ==
    LET a == LeadingWhite(s, 1)
    IN  IF a = Len(s) THEN <<>>
        ELSE SubSeq(s, a + 1, Len(s) - TrailingWhite(s, Len(s)))

\* String.prototype.startsWith
StartsWith(s, p) == Len(s) >= Len(p) /\ SubSeq(s, 1, Len(p)) = p

\* line.match(/^(\s*)/)[1].length
getIndentLevel(line) == LeadingWhite(line, 1)

\* the comment marker, the preprocessor marker and the label colon
CommentMarker == Str("//")
PreprocessorMarker == Str("#")
Colon == CodeOf(":")

\* the line with zero-based index idx
LineAt(ls, idx) == ls[idx + 1]

(***************************************************************************)
(* Regular expressions.  A pattern is a tree; Ends(r, s, p) is the set of  *)
(* positions at which a match of r that starts at position p of s can end  *)
(* (the position after its last character), so that RegExp.prototype.test  *)
(* is "some start has some end".                                           *)
(***************************************************************************)
\* a to z, A to Z and 0 to 9
LowerCase == 97..122
UpperCase == 65..90
Digits == 48..57

\* \w (without the u flag: letters and digits of ASCII and U+005F '_')
WordChars == LowerCase \cup UpperCase \cup Digits \cup {95}
\* \d
DigitChars == Digits

\* the characters a literal character matches: itself, and under the i flag
\* its other case, 32 code units away (no character outside ASCII is
\* canonicalized to one of ASCII when the u flag is absent)
CaseSet(c, ci) ==
    IF ci /\ c \in LowerCase THEN {c, c - 32}
    ELSE IF ci /\ c \in UpperCase THEN {c, c + 32}
    ELSE {c}

Cls(S) == [t |-> "cls", neg |-> FALSE, set |-> S]
NotCls(S) == [t |-> "cls", neg |-> TRUE, set |-> S]
Cat(rs) == [t |-> "cat", rs |-> rs]
Alt(rs) == [t |-> "alt", rs |-> rs]
Star(r) == [t |-> "star", r |-> r]
Plus(r) == Cat(<<r, Star(r)>>)
Opt(r) == Alt(<<Cat(<<>>), r>>)
\* $ (no m flag): the end of the string
AtEnd == [t |-> "end"]
\* a literal string
Lit(text, ci) ==
    Cat([p \in 1..Len(text) |-> Cls(CaseSet(CodeOf(SubSeq(text, p, p)), ci))])
\* . : any character but a line terminator
Dot == NotCls(LineTerminators)
\* \s
Space == Cls(WhiteSpace)
\* [\w.] and [\w_]
WordOrDot == Cls(WordChars \cup {CodeOf(".")})
Word == Cls(WordChars)

RECURSIVE Ends(_, _, _)
RECURSIVE EndsCat(_, _, _, _)
RECURSIVE EndsStar(_, _, _, _)

Ends(r, s, p) ==
    CASE r.t = "cls" ->
            IF p <= Len(s) /\ ((CharAt(s, p) \in r.set) # r.neg)
            THEN {p + 1} ELSE {}
      [] r.t = "cat" -> EndsCat(r.rs, 1, s, {p})
      [] r.t = "alt" -> UNION {Ends(r.rs[j], s, p) : j \in 1..Len(r.rs)}
      [] r.t = "star" -> EndsStar(r.r, s, {p}, {p})
      [] r.t = "end" -> IF p = Len(s) + 1 THEN {p} ELSE {}

EndsCat(rs, j, s, P) ==
    IF j > Len(rs) \/ P = {} THEN P
    ELSE EndsCat(rs, j + 1, s, UNION {Ends(rs[j], s, q) : q \in P})

EndsStar(r, s, seen, frontier) ==
    LET nxt == UNION {Ends(r, s, q) : q \in frontier} \ seen
    IN  IF nxt = {} THEN seen ELSE EndsStar(r, s, seen \cup nxt, nxt)

\* RegExp.prototype.test of a pattern without the g and y flags
Test(r, s) == \E p \in 1..(Len(s) + 1) : Ends(r, s, p) # {}

(***************************************************************************)
(* The pattern tables.                                                     *)
(***************************************************************************)
ERROR_KEYWORDS == <<"return", "goto", "throw", "break", "continue">>

\* the keywords as strings of code units
KeywordText == <<Str("return"), Str("goto"), Str("throw"), Str("break"),
                 Str("continue")>>

ReturnPatterns ==
    << \* /return\s+(-1|false|null|NULL|nullptr|undefined|nil)/i
       Cat(<<Lit("return", TRUE), Plus(Space),
             Alt(<<Lit("-1", TRUE), Lit("false", TRUE), Lit("null", TRUE),
                   Lit("NULL", TRUE), Lit("nullptr", TRUE),
                   Lit("undefined", TRUE), Lit("nil", TRUE)>>)>>),
       \* /return\s+(error|err|failure)/i
       Cat(<<Lit("return", TRUE), Plus(Space),
             Alt(<<Lit("error", TRUE), Lit("err", TRUE), Lit("failure", TRUE)>>)>>),
       \* /return\s+[\w.]+\s*\.\s*(error|failure|err)/i
       Cat(<<Lit("return", TRUE), Plus(Space), Plus(WordOrDot), Star(Space),
             Lit(".", TRUE), Star(Space),
             Alt(<<Lit("error", TRUE), Lit("failure", TRUE), Lit("err", TRUE)>>)>>) >>

ThrowPatterns ==
    << \* /throw\s+new\s+[\w.]+/
       Cat(<<Lit("throw", FALSE), Plus(Space), Lit("new", FALSE), Plus(Space),
             Plus(WordOrDot)>>),
       \* /throw\s+[\w.]+/
       Cat(<<Lit("throw", FALSE), Plus(Space), Plus(WordOrDot)>>) >>

GotoPatterns ==
    << \* /goto\s+[\w_]+/
       Cat(<<Lit("goto", FALSE), Plus(Space), Plus(Word)>>) >>

\* ERROR_PATTERNS[keyword] of extension.ts; no entry (undefined) is the
\* empty list, for which the loop over the patterns is not entered
ERROR_PATTERNS(keyword) ==
    CASE keyword = "return" -> ReturnPatterns
      [] keyword = "throw" -> ThrowPatterns
      [] keyword = "goto" -> GotoPatterns
      [] OTHER -> <<>>

\* ERROR_PATTERNS[keyword] of part_000, which has entries for break and
\* continue as well (its 'log' entry is under no keyword of ERROR_KEYWORDS)
ERROR_PATTERNS_part_000(keyword) ==
    CASE keyword = "return" -> ReturnPatterns
      [] keyword = "throw" -> ThrowPatterns
      [] keyword = "goto" -> GotoPatterns
      \* /break\s*;/
      [] keyword = "break" -> <<Cat(<<Lit("break", FALSE), Star(Space), Lit(";", FALSE)>>)>>
      \* /continue\s*;/
      [] keyword = "continue" -> <<Cat(<<Lit("continue", FALSE), Star(Space), Lit(";", FALSE)>>)>>
      [] OTHER -> <<>>

\* if\s*\(\s*[\w.]+  , the head the five condition patterns share
IfHead == <<Lit("if", TRUE), Star(Space), Lit("(", TRUE), Star(Space), Plus(WordOrDot)>>
\* \s*\)  , their tail
IfTail == <<Star(Space), Lit(")", TRUE)>>

CONDITION_PATTERNS ==
    << \* /if\s*\(\s*[\w.]+\s*==\s*(null|NULL|nullptr|nil|0)\s*\)/i
       Cat(IfHead \o <<Star(Space), Lit("==", TRUE), Star(Space),
                       Alt(<<Lit("null", TRUE), Lit("NULL", TRUE), Lit("nullptr", TRUE),
                             Lit("nil", TRUE), Lit("0", TRUE)>>)>> \o IfTail),
       \* /if\s*\(\s*[\w.]+\s*===\s*(null|NULL|undefined|nil|0)\s*\)/i
       Cat(IfHead \o <<Star(Space), Lit("===", TRUE), Star(Space),
                       Alt(<<Lit("null", TRUE), Lit("NULL", TRUE), Lit("undefined", TRUE),
                             Lit("nil", TRUE), Lit("0", TRUE)>>)>> \o IfTail),
       \* /if\s*\(\s*[\w.]+\s*!=\s*[^=]\s*\)/i
       Cat(IfHead \o <<Star(Space), Lit("!=", TRUE), Star(Space), NotCls({CodeOf("=")})>> \o IfTail),
       \* /if\s*\(\s*[\w.]+\s*<=?\s*\d+\s*\)/i
       Cat(IfHead \o <<Star(Space), Lit("<", TRUE), Opt(Lit("=", TRUE)), Star(Space),
                       Plus(Cls(DigitChars))>> \o IfTail),
       \* /if\s*\(\s*[\w.]+(\.isEmpty\(\)|\.length\s*==\s*0)\s*\)/i
       Cat(IfHead \o <<Alt(<<Lit(".isEmpty()", TRUE),
                             Cat(<<Lit(".length", TRUE), Star(Space), Lit("==", TRUE),
                                   Star(Space), Lit("0", TRUE)>>)>>)>> \o IfTail) >>

LOG_PATTERNS ==
    << \* /\w*\(\s*"(.*(error|failed|failure|err|invalid).*)"/
       Cat(<<Star(Word), Lit("(", FALSE), Star(Space), Lit("\"", FALSE), Star(Dot),
             Alt(<<Lit("error", FALSE), Lit("failed", FALSE), Lit("failure", FALSE),
                   Lit("err", FALSE), Lit("invalid", FALSE)>>),
             Star(Dot), Lit("\"", FALSE)>>) >>

\* new RegExp(`\w*:$`): in a template literal \w is the letter w, so the
\* pattern is /w*:$/ , which a string matches when its last character is ':'
keywordRegex == Cat(<<Star(Cls({CodeOf("w")})), Cls({Colon}), AtEnd>>)

\* some pattern of the list matches the line
AnyTest(patterns, line) == \E j \in 1..Len(patterns) : Test(patterns[j], line)

isConditionStatement(line) == AnyTest(CONDITION_PATTERNS, line)

(***************************************************************************)
(* The block segmenter, analyzeCodeBlocks.                                 *)
(***************************************************************************)
\* the lines the loop passes over: comments, blank lines, preprocessor lines
IsSkipped(rawLine) ==
    LET line == Trim(rawLine)
    IN  StartsWith(line, CommentMarker) \/ line = <<>>
          \/ StartsWith(line, PreprocessorMarker)

\* CodeBlock with endLine one line late (i for i - 1)
CodeBlockEndsOnClosingLine(start, idx, ls, level) ==
    [startLine |-> start.line, startColumn |-> start.column,
     endLine |-> idx, endColumn |-> Len(LineAt(ls, idx)),
     indentLevel |-> level]

\* the block pushed when the line with index idx closes the block that
\* started at `start`
CodeBlock(start, idx, ls, level) ==
    [startLine |-> start.line, startColumn |-> start.column,
     endLine |-> idx - 1, endColumn |-> Len(LineAt(ls, idx - 1)),
     indentLevel |-> level]

Pop(stack) == SubSeq(stack, 1, Len(stack) - 1)
\* Top taking the oldest marker (shift for pop)
TopOldest(stack) == stack[1]

Top(stack) == stack[Len(stack)]

\* line i is a comment, blank or a preprocessor line: continue
SkipLine ==
    /\ pc = "segment" /\ i < Len(lines)
    /\ IsSkipped(LineAt(lines, i))
    /\ i' = i + 1
    /\ UNCHANGED <<rev, lines, pc, currentIndentLevel, bracketStack, blocks,
                   k, foldingRanges, verdicts>>

\* indentLevel > currentIndentLevel: push the line as a start marker
OpenBlock ==
    /\ pc = "segment" /\ i < Len(lines)
    /\ ~IsSkipped(LineAt(lines, i))
    /\ LET indentLevel == getIndentLevel(LineAt(lines, i))
       IN  /\ indentLevel > currentIndentLevel
           /\ bracketStack' = Append(bracketStack, [line |-> i, column |-> 0])
           /\ currentIndentLevel' = indentLevel
    /\ i' = i + 1
    /\ UNCHANGED <<rev, lines, pc, blocks, k, foldingRanges, verdicts>>

\* indentLevel < currentIndentLevel with a start marker on the stack: pop it
\* and push the block that ends on the line before
CloseBlock ==
    /\ pc = "segment" /\ i < Len(lines)
    /\ ~IsSkipped(LineAt(lines, i))
    /\ LET indentLevel == getIndentLevel(LineAt(lines, i))
       IN  /\ indentLevel < currentIndentLevel
           /\ bracketStack # <<>>
           /\ blocks' = Append(blocks, CodeBlock(Top(bracketStack), i, lines,
                                                 currentIndentLevel))
           /\ bracketStack' = Pop(bracketStack)
           /\ currentIndentLevel' = indentLevel
    /\ i' = i + 1
    /\ UNCHANGED <<rev, lines, pc, k, foldingRanges, verdicts>>

\* CloseNothing with the assignment to currentIndentLevel inside the
\* `start !== undefined` branch, so that it is not run
CloseNothingKeepsLevel ==
    /\ pc = "segment" /\ i < Len(lines)
    /\ ~IsSkipped(LineAt(lines, i))
    /\ getIndentLevel(LineAt(lines, i)) < currentIndentLevel
    /\ bracketStack = <<>>
    /\ i' = i + 1
    /\ UNCHANGED <<rev, lines, pc, currentIndentLevel, bracketStack, blocks,
                   k, foldingRanges, verdicts>>

\* indentLevel < currentIndentLevel with an empty stack: pop() is undefined,
\* no block is pushed
CloseNothing ==
    /\ pc = "segment" /\ i < Len(lines)
    /\ ~IsSkipped(LineAt(lines, i))
    /\ LET indentLevel == getIndentLevel(LineAt(lines, i))
       IN  /\ indentLevel < currentIndentLevel
           /\ bracketStack = <<>>
           /\ currentIndentLevel' = indentLevel
    /\ i' = i + 1
    /\ UNCHANGED <<rev, lines, pc, bracketStack, blocks, k, foldingRanges, verdicts>>

\* indentLevel = currentIndentLevel: neither branch
SameLevel ==
    /\ pc = "segment" /\ i < Len(lines)
    /\ ~IsSkipped(LineAt(lines, i))
    /\ getIndentLevel(LineAt(lines, i)) = currentIndentLevel
    /\ i' = i + 1
    /\ UNCHANGED <<rev, lines, pc, currentIndentLevel, bracketStack, blocks,
                   k, foldingRanges, verdicts>>

\* the loop ends: analyzeCodeBlocks returns blocks, and findErrorBranches
\* starts its loop over them
ReturnBlocks ==
    /\ pc = "segment" /\ i = Len(lines)
    /\ pc' = "classify"
    /\ k' = 0
    /\ UNCHANGED <<rev, lines, i, currentIndentLevel, bracketStack, blocks,
                   foldingRanges, verdicts>>

(***************************************************************************)
(* The error classifier, isErrorHandlingBlock.  A verdict records the      *)
(* returned value, the rule that returned it ("gate", "guard", "scan",     *)
(* "none" for the final return false) and, for "scan", the index of the    *)
(* line that matched; fault is the TypeError of reading a property of      *)
(* undefined.                                                              *)
(***************************************************************************)
Verdict(result, via, hit) == [fault |-> FALSE, result |-> result, via |-> via, hit |-> hit]
Fault == [fault |-> TRUE, result |-> FALSE, via |-> "fault", hit |-> -1]

\* the keyword loop of extension.ts: the line starts with a keyword that has
\* patterns, and one of them matches
KeywordMatch(line) ==
    \E j \in 1..Len(ERROR_KEYWORDS) :
        /\ StartsWith(line, KeywordText[j])
        /\ AnyTest(ERROR_PATTERNS(ERROR_KEYWORDS[j]), line)

\* the keyword loop of part_000
KeywordMatch_part_000(line) ==
    \E j \in 1..Len(ERROR_KEYWORDS) :
        /\ StartsWith(line, KeywordText[j])
        /\ AnyTest(ERROR_PATTERNS_part_000(ERROR_KEYWORDS[j]), line)

\* the log loop
LogMatch(line) == AnyTest(LOG_PATTERNS, line)

\* the lines of the block the scan looks at: not // comments, not blank
\* (a # line is looked at), and not indented more than the block
Scanned(block, ls, idx) ==
    LET line == Trim(LineAt(ls, idx))
    IN  /\ ~(StartsWith(line, CommentMarker) \/ line = <<>>)
        /\ ~(getIndentLevel(LineAt(ls, idx)) > block.indentLevel)

\* the first line of the content scan of extension.ts that returns true, or -1
ScanHit(block, ls) ==
    LET hits == {idx \in block.startLine..block.endLine :
                    /\ Scanned(block, ls, idx)
                    /\ \/ KeywordMatch(Trim(LineAt(ls, idx)))
                       \/ LogMatch(Trim(LineAt(ls, idx)))}
    IN  IF hits = {} THEN -1 ELSE CHOOSE h \in hits : \A g \in hits : h <= g

\* the same of part_000, which has no log loop
ScanHit_part_000(block, ls) ==
    LET hits == {idx \in block.startLine..block.endLine :
                    /\ Scanned(block, ls, idx)
                    /\ KeywordMatch_part_000(Trim(LineAt(ls, idx)))}
    IN  IF hits = {} THEN -1 ELSE CHOOSE h \in hits : \A g \in hits : h <= g

\* the depth gate of extension.ts: the block is shallow and the line before
\* it does not end in ':'
DepthGate(block, line) ==
    block.indentLevel <= 4 /\ ~Test(keywordRegex, line)

\* the depth gate of part_000
DepthGate_part_000(block) == block.indentLevel <= 4

\* PrecedingGuard with the bound off by one
PrecedingGuardFromSecondLine(block, ls) ==
    /\ block.startLine > 1
    /\ isConditionStatement(Trim(LineAt(ls, block.startLine - 1)))

\* the line before the block is a condition statement
PrecedingGuard(block, ls) ==
    /\ block.startLine > 0
    /\ isConditionStatement(Trim(LineAt(ls, block.startLine - 1)))

\* isErrorHandlingBlock of extension.ts
isErrorHandlingBlock(block, ls) ==
    IF block.startLine - 1 < 0 \/ block.startLine - 1 >= Len(ls)
    THEN \* lines[block.startLine - 1] is undefined, .trim() throws
         Fault
    ELSE IF DepthGate(block, Trim(LineAt(ls, block.startLine - 1)))
    THEN Verdict(FALSE, "gate", -1)
    ELSE IF PrecedingGuard(block, ls)
    THEN Verdict(TRUE, "guard", -1)
    ELSE LET hit == ScanHit(block, ls)
         IN  IF hit >= 0 THEN Verdict(TRUE, "scan", hit)
             ELSE Verdict(FALSE, "none", -1)

\* isErrorHandlingBlock of part_000
isErrorHandlingBlock_part_000(block, ls) ==
    IF DepthGate_part_000(block)
    THEN Verdict(FALSE, "gate", -1)
    ELSE IF PrecedingGuard(block, ls)
    THEN Verdict(TRUE, "guard", -1)
    ELSE LET hit == ScanHit_part_000(block, ls)
         IN  IF hit >= 0 THEN Verdict(TRUE, "scan", hit)
             ELSE Verdict(FALSE, "none", -1)

\* the classifier of the revision that runs
Classify(r, block, ls) ==
    IF r = "extension.ts" THEN isErrorHandlingBlock(block, ls)
    ELSE isErrorHandlingBlock_part_000(block, ls)

(***************************************************************************)
(* findErrorBranches: the loop over the blocks.                            *)
(***************************************************************************)
\* new vscode.FoldingRange(block.startLine - 1, block.endLine)
FoldingRange(block) == [start |-> block.startLine - 1, end |-> block.endLine]

\* the block is an error handling block: push its folding range
AcceptBlock ==
    /\ pc = "classify" /\ k < Len(blocks)
    /\ LET v == Classify(rev, blocks[k + 1], lines)
       IN  /\ ~v.fault /\ v.result
           /\ verdicts' = Append(verdicts, v)
    /\ foldingRanges' = Append(foldingRanges, FoldingRange(blocks[k + 1]))
    /\ k' = k + 1
    /\ UNCHANGED <<rev, lines, pc, i, currentIndentLevel, bracketStack, blocks>>

\* the block is not an error handling block
RejectBlock ==
    /\ pc = "classify" /\ k < Len(blocks)
    /\ LET v == Classify(rev, blocks[k + 1], lines)
       IN  /\ ~v.fault /\ ~v.result
           /\ verdicts' = Append(verdicts, v)
    /\ k' = k + 1
    /\ UNCHANGED <<rev, lines, pc, i, currentIndentLevel, bracketStack, blocks,
                   foldingRanges>>

\* isErrorHandlingBlock throws: the TypeError leaves findErrorBranches,
\* which returns nothing
ThrowTypeError ==
    /\ pc = "classify" /\ k < Len(blocks)
    /\ LET v == Classify(rev, blocks[k + 1], lines)
       IN  /\ v.fault
           /\ verdicts' = Append(verdicts, v)
    /\ pc' = "fault"
    /\ UNCHANGED <<rev, lines, i, currentIndentLevel, bracketStack, blocks,
                   k, foldingRanges>>

\* return foldingRanges
ReturnRanges ==
    /\ pc = "classify" /\ k = Len(blocks)
    /\ pc' = "done"
    /\ UNCHANGED <<rev, lines, i, currentIndentLevel, bracketStack, blocks,
                   k, foldingRanges, verdicts>>

(***************************************************************************)
(* The inputs.                                                             *)
(***************************************************************************)
RECURSIVE Rep(_, _)
\* the string w, d times
Rep(w, d) == IF d = 0 THEN <<>> ELSE w \o Rep(w, d - 1)

\* d spaces
Pad(d) == Rep(Str(" "), d)

\* the lines of the indentation family: a statement at one of four depths,
\* or a blank line
SegLines == {Pad(d) \o Str("x;") : d \in {0, 2, 4, 6}} \cup {<<>>}

\* every sequence of one to MaxLines such lines
SegInputs == UNION {[1..n -> SegLines] : n \in 1..MaxLines}

\* the lines that may precede a block
Openers ==
    {Str(o) : o \in {"function f(x) {", "if (x == null) {", "err:",
                     "if (p == NULL):"}}

\* the lines of a block
BodyLines ==
    {Pad(d) \o Str(t) : d \in {4, 6},
                        t \in {"return false;", "return true;", "break;",
                               "throw new Error(\"x\")", "// return -1;",
                               "# log(\"error\")"}}

\* an optional opener, one to MaxBody body lines and a closing brace
ClassInputs ==
    {pre \o body \o <<Str("}")>> :
        pre \in {<<>>} \cup {<<o>> : o \in Openers},
        body \in UNION {[1..n -> BodyLines] : n \in 1..MaxBody}}

\* lines before a block for each of the five condition patterns (strict
\* equality, inequality, the numeric thresholds, the two emptiness tests),
\* and lines that are conditions but match none of them
Guards ==
    {Str(g) : g \in {"if (x === undefined) {", "if (a != b) {",
                     "if (n <= 0) {", "if (n < 10) {", "if (s.isEmpty()) {",
                     "if (s.length == 0) {", "IF(p==0)", "if (a == b) {",
                     "if (a !== b) {", "if (n > 0) {", "while (x == null) {"}}

\* a line of Guards, a block of one line, a closing brace
GuardInputs ==
    {<<g, body, Str("}")>> : g \in Guards, body \in BodyLines}

\* the end-to-end scenario of the specification, indented by `unit`
Scenario(unit) ==
    << Str("function f(x) {"),
       Pad(unit) \o Str("if (x == null) {"),
       Pad(2 * unit) \o Str("return false;"),
       Pad(unit) \o Str("}"),
       Pad(unit) \o Str("return true;"),
       Str("}") >>

ScenarioInputs == {Scenario(unit) : unit \in {2, 4}}

\* characters that are close to white space and are none for trim and \s:
\* U+0085 next line, U+180E mongolian vowel separator, U+200B zero width
\* space
NearWhite == {133, 6158, 8203}

\* a guarded block and a labelled block whose white space is the character
\* w throughout: in the guard, as the indentation and at the end of the
\* lines (a line holds no line feed, the text being split at them); and a
\* line indented by one character that is white space or close to it
WhiteInputs ==
    UNION {{ << Str("if") \o <<w>> \o Str("(x") \o <<w>> \o Str("==") \o <<w>>
                    \o Str("null)") \o <<w>> \o Str("{") \o <<w>>,
                Rep(<<w>>, d) \o Str("return") \o <<w>> \o Str("true;") \o <<w>>,
                Str("}") >>,
             << Str("err:") \o <<w>>,
                Rep(<<w>>, d) \o Str("return") \o <<w>> \o Str("false;") \o <<w>>,
                <<w>>,
                Str("}") >>,
             << Str("a"), <<w>> \o Str("x;"), Str("b") >> }
           : w \in (WhiteSpace \cup NearWhite) \ {10}, d \in {4, 6}}

\* a labelled block whose one line logs a message with the character w
\* before the word error: a line terminator, which . does not match, or
\* another character
LogInputs ==
    {<< Str("err:"),
        Pad(d) \o Str("log(\"") \o <<w>> \o Str("error\")"),
        Str("}") >> : w \in (LineTerminators \cup {32, 160}) \ {10},
                      d \in {4, 6}}

Inputs ==
    SegInputs \cup ClassInputs \cup GuardInputs \cup ScenarioInputs
        \cup WhiteInputs \cup LogInputs

Revisions == {"extension.ts", "part_000"}

Init ==
    /\ rev \in Revisions
    /\ lines \in Inputs
    /\ pc = "segment"
    /\ i = 0
    /\ currentIndentLevel = 0
    /\ bracketStack = <<>>
    /\ blocks = <<>>
    /\ k = 0
    /\ foldingRanges = <<>>
    /\ verdicts = <<>>

Next ==
    \/ SkipLine
    \/ OpenBlock
    \/ CloseBlock
    \/ CloseNothing
    \/ SameLevel
    \/ ReturnBlocks
    \/ AcceptBlock
    \/ RejectBlock
    \/ ThrowTypeError
    \/ ReturnRanges

Spec == Init /\ [][Next]_vars

(***************************************************************************)
(* The claims.                                                             *)
(***************************************************************************)
N == Len(lines)

\* verdicts[j] is the verdict of blocks[j]
Judged == 1..Len(verdicts)

\* the trimmed line before the block
PrevLine(b) == Trim(LineAt(lines, b.startLine - 1))

\* the last character of the string is ':'
EndsWithColon(t) == Len(t) > 0 /\ CharAt(t, Len(t)) = Colon

\* the lines the segmenter does not pass over
CodeLines == {c \in 0..(N - 1) : ~IsSkipped(LineAt(lines, c))}

Indent(c) == getIndentLevel(LineAt(lines, c))

\* o is the line that opened the block that starts at line c: the last
\* line before c that the segmenter did not pass over
Opens(o, c) == o \in CodeLines /\ o < c /\ \A d \in CodeLines : ~(o < d /\ d < c)

\* C1: on the six lines of the end-to-end scenario (indents 0, 2, 4, 2, 2, 0)
\* findErrorBranches returns exactly one range, which covers the line
\* 'return false;' (index 2) and does not cover 'return true;' (index 4).
C1_ScenarioYieldsOneRange ==
    (pc \in {"done", "fault"} /\ lines = Scenario(2)) =>
        /\ pc = "done"
        /\ Len(foldingRanges) = 1
        /\ foldingRanges[1].start <= 2 /\ 2 <= foldingRanges[1].end
        /\ ~(foldingRanges[1].start <= 4 /\ 4 <= foldingRanges[1].end)

\* C2: for a block with startLine = 0 isErrorHandlingBlock does not fault: it
\* returns a boolean, and not by the guard rule (there is no preceding line).
C2_StartZeroDoesNotFault ==
    \A j \in Judged :
        blocks[j].startLine = 0 =>
            /\ ~verdicts[j].fault
            /\ verdicts[j].via # "guard"
            /\ verdicts[j].result \in BOOLEAN

\* C3: every folding range findErrorBranches returns has
\* 0 <= start <= end <= n - 1.
C3_RangesWithinInput ==
    pc = "done" =>
        \A j \in 1..Len(foldingRanges) :
            /\ 0 <= foldingRanges[j].start
            /\ foldingRanges[j].start <= foldingRanges[j].end
            /\ foldingRanges[j].end <= N - 1

\* C4: the indentLevel of every block is the indentation of the line at its
\* startLine, and is greater than the indentation of the line that opened it.
C4_IndentLevelIsBodyIndent ==
    \A j \in 1..Len(blocks) :
        /\ blocks[j].indentLevel = Indent(blocks[j].startLine)
        /\ \A o \in 0..(N - 1) :
               Opens(o, blocks[j].startLine) => blocks[j].indentLevel > Indent(o)

Disjoint(a, b) == a.endLine < b.startLine \/ b.endLine < a.startLine
StrictlyInside(a, b) ==
    /\ b.startLine <= a.startLine /\ a.endLine <= b.endLine
    /\ (b.startLine < a.startLine \/ a.endLine < b.endLine)

\* C5: two distinct blocks are disjoint or one lies strictly inside the
\* other, and they never start on the same line.
C5_BlocksNestOrAreDisjoint ==
    \A a, b \in 1..Len(blocks) :
        a # b =>
            /\ \/ Disjoint(blocks[a], blocks[b])
               \/ StrictlyInside(blocks[a], blocks[b])
               \/ StrictlyInside(blocks[b], blocks[a])
            /\ blocks[a].startLine # blocks[b].startLine

\* a finished segmentation with a block strictly inside another
C5_Witness ==
    /\ pc = "done"
    /\ \E a, b \in 1..Len(blocks) : a # b /\ StrictlyInside(blocks[a], blocks[b])

\* a finished segmentation with two blocks one after the other
C5_WitnessDisjoint ==
    /\ pc = "done"
    /\ \E a, b \in 1..Len(blocks) : a # b /\ Disjoint(blocks[a], blocks[b])

\* the indentation of the lines that are not passed over never decreases
NeverDecreases ==
    \A c, d \in CodeLines : c < d => Indent(c) <= Indent(d)

\* C6: every block has 0 <= startLine <= endLine <= n - 2; a start marker
\* left on the stack is the start of no block; an input whose indentation
\* never decreases has no blocks.
C6_BlocksEndBeforeLastLine ==
    /\ \A j \in 1..Len(blocks) :
           /\ 0 <= blocks[j].startLine
           /\ blocks[j].startLine <= blocks[j].endLine
           /\ blocks[j].endLine <= N - 2
    /\ \A m \in 1..Len(bracketStack) :
           \A j \in 1..Len(blocks) : blocks[j].startLine # bracketStack[m].line
    /\ NeverDecreases => blocks = <<>>

\* a finished segmentation with a block that ends on the line before the
\* last and with a start marker left on the stack
C6_Witness ==
    /\ pc = "done"
    /\ bracketStack # <<>>
    /\ \E j \in 1..Len(blocks) : blocks[j].endLine = N - 2

\* the loop is at a line below currentIndentLevel with nothing to pop
AtEmptyPop ==
    /\ pc = "segment" /\ i < N
    /\ ~IsSkipped(LineAt(lines, i))
    /\ Indent(i) < currentIndentLevel
    /\ bracketStack = <<>>

\* no line that is not passed over is indented more than the line before it
\* that is not passed over
NoLineIndentedMore ==
    \A c, o \in CodeLines : Opens(o, c) => Indent(c) <= Indent(o)

\* the first line that is not passed over, if there is one, is not indented
FirstLineNotIndented ==
    \A c \in CodeLines : (\A o \in CodeLines : ~(o < c)) => Indent(c) = 0

\* C7 as stated: a line below currentIndentLevel is never the first line, and
\* an input with no indentation increase from one line to the next has no
\* blocks.
C7_NoIncreaseNoBlocks ==
    /\ (pc = "segment" /\ i < N /\ ~IsSkipped(LineAt(lines, i))
          /\ Indent(i) < currentIndentLevel) => i >= 1
    /\ NoLineIndentedMore => blocks = <<>>

\* C7: a line below currentIndentLevel is never the first line (the line
\* before it, whose length is read, exists); with an empty stack the step
\* pushes no block, changes no block, sets currentIndentLevel to the line's
\* indentation and goes on to the next line; an input with no indentation
\* increase from one line to the next whose first line is not indented has
\* no blocks (an indented first line is above the initial currentIndentLevel
\* of 0 and is pushed as a start marker).
C7_EmptyPopIsNoOp ==
    /\ []((pc = "segment" /\ i < N /\ ~IsSkipped(LineAt(lines, i))
             /\ Indent(i) < currentIndentLevel) => i >= 1)
    /\ []((NoLineIndentedMore /\ FirstLineNotIndented) => blocks = <<>>)
    /\ [][AtEmptyPop =>
             /\ blocks' = blocks
             /\ currentIndentLevel' = Indent(i)
             /\ bracketStack' = <<>>
             /\ pc' = "segment" /\ i' = i + 1]_vars

\* the input with indents 0, 4, 2, 0, segmented: the block of line 1 was
\* pushed at line 2, and the pop at line 3 found the stack empty
C7_Witness ==
    /\ lines = <<Str("x;"), Str("    x;"), Str("  x;"), Str("x;")>>
    /\ pc = "done"
    /\ Len(blocks) = 1
    /\ currentIndentLevel = 0

\* C8: a block with indentLevel <= 4 and startLine > 0 is rejected when the
\* trimmed line before it does not end in ':'; when that line ends in ':'
\* the gate lets the block pass, and the result is that of the guard check
\* and the content scan of the revision.
C8_DepthGate ==
    \A j \in Judged :
        (blocks[j].indentLevel <= 4 /\ blocks[j].startLine > 0) =>
            /\ ~EndsWithColon(PrevLine(blocks[j])) => ~verdicts[j].result
            /\ EndsWithColon(PrevLine(blocks[j])) =>
                   /\ verdicts[j].via # "gate"
                   /\ verdicts[j].result =
                          (\/ isConditionStatement(PrevLine(blocks[j]))
                           \/ IF rev = "extension.ts"
                              THEN ScanHit(blocks[j], lines) >= 0
                              ELSE ScanHit_part_000(blocks[j], lines) >= 0)

\* C9: a block with startLine > 0 that the depth gate does not reject, and
\* whose preceding line is a condition statement, is accepted by the guard
\* rule, no line of the block having been looked at.
C9_GuardAccepts ==
    \A j \in Judged :
        ( /\ ~verdicts[j].fault
          /\ verdicts[j].via # "gate"
          /\ blocks[j].startLine > 0
          /\ isConditionStatement(PrevLine(blocks[j])) ) =>
            /\ verdicts[j].result
            /\ verdicts[j].via = "guard"
            /\ verdicts[j].hit = -1

\* a block accepted by the guard rule of which no line matches a keyword
\* pattern or a log pattern, after a condition that is not the equality of
\* the first condition pattern: an emptiness test
C9_Witness ==
    \E j \in Judged :
        /\ verdicts[j].via = "guard"
        /\ verdicts[j].result
        /\ ScanHit(blocks[j], lines) = -1
        /\ ScanHit_part_000(blocks[j], lines) = -1
        /\ ~Test(CONDITION_PATTERNS[1], PrevLine(blocks[j]))
        /\ Test(CONDITION_PATTERNS[5], PrevLine(blocks[j]))

\* C10: the line on which the content scan accepts a block is a line of the
\* block that is neither blank nor a comment, and its indentation is the
\* block's indentLevel.
C10_ScanOnlyAtBlockLevel ==
    \A j \in Judged :
        verdicts[j].via = "scan" =>
            /\ blocks[j].startLine <= verdicts[j].hit
            /\ verdicts[j].hit <= blocks[j].endLine
            /\ Trim(LineAt(lines, verdicts[j].hit)) # <<>>
            /\ ~StartsWith(Trim(LineAt(lines, verdicts[j].hit)), CommentMarker)
            /\ Indent(verdicts[j].hit) = blocks[j].indentLevel

====
